---- MODULE Spec2Model ----
(***************************************************************************)
(* Model of the database credential backend:                               *)
(*   - pathCredsCreateRead, the credential request handler                 *)
(*   - Factory, the in-process backend constructor, and queryHelper        *)
(*   - newPluginClient / DatabasePluginClient.Close, the plugin lifecycle  *)
(***************************************************************************)
EXTENDS Integers, Sequences, FiniteSets, TLC

\* ---------------------------------------------------------------- bounds
NumReqs == 2
\* plugin lifecycle: connection attempts, Close calls and stub calls in a run
MaxConnects == 2
MaxCloses == 2
MaxCalls == 1
\* remote calls made through the stubs in a run
MaxRPCs == 1
\* configuration replacements in a run
MaxReplaces == 1
\* queryHelper: pieces a template is assembled from
MaxPieces == 2

\* ------------------------------------------------------------- vocabulary
Reqs == 1..NumReqs
RoleNames == {"r1", "r2"}
\* "ghost" is a name no role is stored under
ReqNames == RoleNames \cup {"ghost"}
DBNames == {"db1", "db2"}
Usernames == {"alice", "bob"}
Passwords == {"p@ss", "hunter2"}

postgreSQLTypeName == "postgres"
cassandraTypeName == "cassandra"
\* type strings a stored configuration may carry: the two supported ones and
\* a string that extends a supported one
TypeStrings == {postgreSQLTypeName, cassandraTypeName, "postgresql"}

None == [kind |-> "none"]
NilErr == [kind |-> "nil", cause |-> "nil"]
Err(k, c) == [kind |-> k, cause |-> c]
ErrUnsupportedDatabaseType == "Unsupported database type"
ErrPermissionDenied == Err("PermissionDenied", "nil")
NilResp == [kind |-> "nil"]

VARIABLES
    \* storage, and the number of configuration replacements so far
    roles, configs, replaces,
    \* one credential request per r \in Reqs
    pc, name, role, dbConfig, db, resp, err, calls, created,
    \* databaseBackend: its mutex and its handle cache
    lockHolder, connections, handles, factoryCalls, factoryLog,
    \* plugin lifecycle
    procs, conn, pluginHandles, pluginCache, closeCalls, connResults, stubCalls,
    \* queryHelper
    qIn, qData, qTpl, qTodo,
    \* one remote call through the stubs at a time
    rpc, rpcCount

storeVars == <<roles, configs, replaces>>
reqVars == <<pc, name, role, dbConfig, db, resp, err, calls, created>>
backendVars == <<lockHolder, connections, handles, factoryCalls, factoryLog>>
pluginVars == <<procs, conn, pluginHandles, pluginCache, closeCalls, connResults, stubCalls>>
queryVars == <<qIn, qData, qTpl, qTodo>>
rpcVars == <<rpc, rpcCount>>
vars == <<storeVars, reqVars, backendVars, pluginVars, queryVars, rpcVars>>

\* ---------------------------------------------------------------- storage
\* the role stored under n: its statements are the role's own
RoleEntry(n, rec) == [kind |-> "role", DBName |-> rec.DBName,
                      DefaultTTL |-> rec.DefaultTTL, Statements |-> <<"stmts", n>>]

AllowLists == {{"*"}, {"r1"}}
\* ConnectionDetails is an opaque map; decodes says whether mapstructure.Decode
\* of it into the connection-details struct of the configured type succeeds
ConfigRecords == [DatabaseType : TypeStrings, decodes : BOOLEAN, AllowedRoles : AllowLists]
ConfigEntry(rec) == [kind |-> "config", DatabaseType |-> rec.DatabaseType,
                     ConnectionDetails |-> [decodes |-> rec.decodes],
                     AllowedRoles |-> rec.AllowedRoles]

\* ------------------------------------------------------ Factory (pure part)
mapstructureDecode(details) == IF details.decodes THEN NilErr ELSE Err("DecodeError", "nil")

FactoryDefaultsToPostgres(conf) ==
    LET e == mapstructureDecode(conf.ConnectionDetails) IN
    CASE conf.DatabaseType = cassandraTypeName ->
           IF e # NilErr THEN [db |-> "nil", err |-> e]
           ELSE [db |-> "Cassandra", err |-> NilErr]
      [] OTHER ->
           IF e # NilErr THEN [db |-> "nil", err |-> e]
           ELSE [db |-> "PostgreSQL", err |-> NilErr]

Factory(conf) ==
    CASE conf.DatabaseType = postgreSQLTypeName ->
           LET e == mapstructureDecode(conf.ConnectionDetails) IN
           IF e # NilErr THEN [db |-> "nil", err |-> e]
           ELSE [db |-> "PostgreSQL", err |-> NilErr]
      [] conf.DatabaseType = cassandraTypeName ->
           LET e == mapstructureDecode(conf.ConnectionDetails) IN
           IF e # NilErr THEN [db |-> "nil", err |-> e]
           ELSE [db |-> "Cassandra", err |-> NilErr]
      [] OTHER -> [db |-> "nil", err |-> Err(ErrUnsupportedDatabaseType, "nil")]

\* --------------------------------------------------- pathCredsCreateRead
StrListContains(list, s) == s \in list

AuthorizedIfListNonEmpty(allowed, n) == allowed # {}

\* the allow-list test of the handler
Authorized(allowed, n) == StrListContains(allowed, "*") \/ StrListContains(allowed, n)

Return(r, rsp, e) ==
    /\ resp' = [resp EXCEPT ![r] = rsp]
    /\ err' = [err EXCEPT ![r] = e]
    /\ pc' = [pc EXCEPT ![r] = "done"]

Called(r, what) == calls' = [calls EXCEPT ![r] = @ \cup what]

\* b.Role: the stored role, nil when none is stored under the name
Role(n, storageOk) ==
    IF ~storageOk THEN [role |-> None, err |-> Err("StorageError", "nil")]
    ELSE IF n \notin DOMAIN roles THEN [role |-> None, err |-> NilErr]
    ELSE [role |-> roles[n], err |-> NilErr]

RoleIsNilNever(rl) == FALSE

\* if role == nil
RoleIsNil(rl) == rl = None

\* return logical.ErrorResponse(fmt.Sprintf("unknown role: %s", name)), nil
UnknownRole(n) == [kind |-> "error", msg |-> <<"unknown role", n>>]

\* name := data.Get("name"); role, err := b.Role(req.Storage, name)
ResolveRole(r, n, storageOk) ==
    /\ pc[r] = "start"
    /\ name' = [name EXCEPT ![r] = n]
    /\ Called(r, {"Role"})
    /\ LET got == Role(n, storageOk) IN
       IF got.err # NilErr
         THEN Return(r, NilResp, got.err) /\ UNCHANGED role
         ELSE IF RoleIsNil(got.role)
         THEN Return(r, UnknownRole(n), NilErr) /\ UNCHANGED role
         ELSE /\ role' = [role EXCEPT ![r] = got.role]
              /\ pc' = [pc EXCEPT ![r] = "config"]
              /\ UNCHANGED <<resp, err>>
    /\ UNCHANGED <<dbConfig, db, created>>
    /\ UNCHANGED <<storeVars, backendVars, pluginVars, queryVars, rpcVars>>

\* b.DatabaseConfig: the stored configuration, or an error when none is stored
DatabaseConfig(d, storageOk) ==
    IF ~storageOk THEN [conf |-> None, err |-> Err("StorageError", "nil")]
    ELSE IF configs[d] = None THEN [conf |-> None, err |-> Err("NotFoundConfig", d)]
    ELSE [conf |-> configs[d], err |-> NilErr]

ConfigLookupFailedNever(e) == FALSE

\* if err != nil { return nil, err }, after the configuration lookup
ConfigLookupFailed(e) == e # NilErr

\* dbConfig, err := b.DatabaseConfig(req.Storage, role.DBName)
ResolveConfig(r, storageOk) ==
    /\ pc[r] = "config"
    /\ Called(r, {"DatabaseConfig"})
    /\ LET got == DatabaseConfig(role[r].DBName, storageOk) IN
       IF ConfigLookupFailed(got.err)
         THEN Return(r, NilResp, got.err) /\ UNCHANGED dbConfig
         ELSE /\ dbConfig' = [dbConfig EXCEPT ![r] = got.conf]
              /\ pc' = [pc EXCEPT ![r] = "authorize"]
              /\ UNCHANGED <<resp, err>>
    /\ UNCHANGED <<name, role, db, created>>
    /\ UNCHANGED <<storeVars, backendVars, pluginVars, queryVars, rpcVars>>

\* if !StrListContains(AllowedRoles, "*") && !StrListContains(AllowedRoles, name)
Authorize(r) ==
    /\ pc[r] = "authorize"
    /\ IF ~Authorized(dbConfig[r].AllowedRoles, name[r])
         THEN Return(r, NilResp, ErrPermissionDenied)
         ELSE pc' = [pc EXCEPT ![r] = "lock"] /\ UNCHANGED <<resp, err>>
    /\ Called(r, {"StrListContains"})
    /\ UNCHANGED <<name, role, dbConfig, db, created>>
    /\ UNCHANGED <<storeVars, backendVars, pluginVars, queryVars, rpcVars>>

LockFreeAlways(r) == TRUE

\* sync.Mutex: Lock blocks while another request holds the mutex
LockFree(r) == lockHolder = 0

\* b.Lock(); defer b.Unlock()
Lock(r) ==
    /\ pc[r] = "lock"
    /\ LockFree(r)
    /\ lockHolder' = r
    /\ Called(r, {"Lock"})
    /\ pc' = [pc EXCEPT ![r] = "getdb"]
    /\ UNCHANGED <<name, role, dbConfig, db, resp, err, created>>
    /\ UNCHANGED <<connections, handles, factoryCalls, factoryLog>>
    /\ UNCHANGED <<storeVars, pluginVars, queryVars, rpcVars>>

UnlockForgotten(r) == UNCHANGED lockHolder

\* the deferred b.Unlock(), run when the handler returns
Unlock(r) == lockHolder' = 0

\* getOrCreateDBObj, step 1: the cached handle on a hit
GetOrCreateLookup(r) ==
    /\ pc[r] = "getdb"
    /\ Called(r, {"getOrCreateDBObj"})
    /\ IF connections[role[r].DBName] # 0
         THEN /\ db' = [db EXCEPT ![r] = connections[role[r].DBName]]
              /\ pc' = [pc EXCEPT ![r] = "createuser"]
         ELSE /\ pc' = [pc EXCEPT ![r] = "construct"]
              /\ UNCHANGED db
    /\ UNCHANGED <<name, role, dbConfig, resp, err, created>>
    /\ UNCHANGED <<storeVars, backendVars, pluginVars, queryVars, rpcVars>>

\* if err != nil { return nil, fmt.Errorf("cound not retrieve db ...") }
WrapDBError(d, e) == Err("cound not retrieve db", <<d, e.kind>>)

\* getOrCreateDBObj, step 2 (miss): look the configuration up, construct the
\* handle with Factory and cache it on success
GetOrCreateConstruct(r, storageOk) ==
    /\ pc[r] = "construct"
    /\ LET d == role[r].DBName
           got == DatabaseConfig(d, storageOk)
       IN IF got.err # NilErr
            THEN /\ Return(r, NilResp, WrapDBError(d, got.err))
                 /\ Called(r, {"Unlock"})
                 /\ Unlock(r)
                 /\ UNCHANGED <<db, connections, handles, factoryCalls, factoryLog>>
            ELSE LET made == Factory(got.conf) IN
                 /\ factoryCalls' = [factoryCalls EXCEPT ![d] = @ + 1]
                 /\ factoryLog' = factoryLog \cup {[conf |-> got.conf, out |-> made]}
                 /\ IF made.err # NilErr
                      THEN /\ Return(r, NilResp, WrapDBError(d, made.err))
                           /\ Called(r, {"Factory", "Unlock"})
                           /\ Unlock(r)
                           /\ UNCHANGED <<db, connections, handles>>
                      ELSE /\ handles' = Append(handles, [name |-> d, type |-> made.db])
                           /\ connections' = [connections EXCEPT ![d] = Len(handles) + 1]
                           /\ db' = [db EXCEPT ![r] = Len(handles) + 1]
                           /\ Called(r, {"Factory"})
                           /\ pc' = [pc EXCEPT ![r] = "createuser"]
                           /\ UNCHANGED <<resp, err, lockHolder>>
    /\ UNCHANGED <<name, role, dbConfig, created>>
    /\ UNCHANGED <<storeVars, pluginVars, queryVars, rpcVars>>

SecretResponseNoTTL(n, rl, username, password) ==
    [kind |-> "secret",
     data |-> [username |-> username, password |-> password],
     internal |-> [username |-> username, role |-> n],
     ttl |-> 0]

\* b.Secret(SecretCredsType).Response(data, internal); resp.Secret.TTL = role.DefaultTTL
SecretResponse(n, rl, username, password) ==
    [kind |-> "secret",
     data |-> [username |-> username, password |-> password],
     internal |-> [username |-> username, role |-> n],
     ttl |-> rl.DefaultTTL]

CreateUserReturnKeepsResp(n, rl, out) ==
    [resp |-> SecretResponse(n, rl, out.username, out.password),
     err |-> IF out.err # NilErr THEN out.err ELSE NilErr]

\* what the handler returns once db.CreateUser has returned
CreateUserReturn(n, rl, out) ==
    IF out.err # NilErr THEN [resp |-> NilResp, err |-> out.err]
    ELSE [resp |-> SecretResponse(n, rl, out.username, out.password), err |-> NilErr]

\* what the backend may answer to CreateUser
CreateUserOutcomes ==
    [username : Usernames, password : Passwords, err : {NilErr}]
      \cup {[username |-> "", password |-> "", err |-> Err("BackendOperationError", "nil")]}

CacheDropsFailedHandle(d, out) ==
    IF out.err # NilErr THEN [connections EXCEPT ![d] = 0] ELSE connections

\* if err != nil { return nil, err }, after db.CreateUser: the handler returns
\* and touches no entry of the cache, whatever CreateUser answered
CacheAfterCreateUser(d, out) == connections

\* expiration := now + role.DefaultTTL; db.CreateUser(...); build the response
CreateUser(r, out) ==
    /\ pc[r] = "createuser"
    /\ connections' = CacheAfterCreateUser(role[r].DBName, out)
    /\ created' = [created EXCEPT ![r] =
                      [kind |-> "call", db |-> db[r], statements |-> role[r].Statements,
                       expiresIn |-> role[r].DefaultTTL, out |-> out,
                       stored |-> configs[role[r].DBName]]]
    /\ LET ret == CreateUserReturn(name[r], role[r], out) IN Return(r, ret.resp, ret.err)
    /\ Called(r, {"CreateUser", "Unlock"})
    /\ Unlock(r)
    /\ UNCHANGED <<name, role, dbConfig, db>>
    /\ UNCHANGED <<handles, factoryCalls, factoryLog>>
    /\ UNCHANGED <<storeVars, pluginVars, queryVars, rpcVars>>

\* ------------------------------------------------------------ idle parts
PluginIdle ==
    /\ procs = <<>>
    /\ conn = [pc |-> "idle"]
    /\ pluginHandles = <<>>
    /\ pluginCache = [d \in DBNames |-> 0]
    /\ closeCalls = <<>>
    /\ connResults = <<>>
    /\ stubCalls = 0

RPCIdle ==
    /\ rpc = [pc |-> "idle"]
    /\ rpcCount = 0

QueryIdle ==
    /\ qIn = <<>>
    /\ qData = <<>>
    /\ qTpl = <<>>
    /\ qTodo = {}

CredsIdle ==
    /\ roles = <<>>
    /\ configs = [d \in DBNames |-> None]
    /\ replaces = 0
    /\ pc = [r \in Reqs |-> "done"]
    /\ name = [r \in Reqs |-> ""]
    /\ role = [r \in Reqs |-> None]
    /\ dbConfig = [r \in Reqs |-> None]
    /\ db = [r \in Reqs |-> 0]
    /\ resp = [r \in Reqs |-> NilResp]
    /\ err = [r \in Reqs |-> NilErr]
    /\ calls = [r \in Reqs |-> {}]
    /\ created = [r \in Reqs |-> None]
    /\ lockHolder = 0
    /\ connections = [d \in DBNames |-> 0]
    /\ handles = <<>>
    /\ factoryCalls = [d \in DBNames |-> 0]
    /\ factoryLog = {}

\* ------------------------------------------- the credential-request system
\* role r1 targets db1 and r2 either database; the roles' TTLs differ
RoleTables ==
    {[n \in RoleNames |-> RoleEntry(n, [DBName |-> IF n = "r1" THEN "db1" ELSE d,
                                        DefaultTTL |-> IF n = "r1" THEN 30 ELSE 60])] :
        d \in DBNames}

\* a configuration, or none, under every name; none under a name no role targets
ConfigTables(rs) ==
    {c \in [DBNames -> {None} \cup {ConfigEntry(rec) : rec \in ConfigRecords}] :
        \A d \in DBNames : (\A n \in DOMAIN rs : rs[n].DBName # d) => c[d] = None}

Init ==
    /\ roles \in RoleTables
    /\ configs \in ConfigTables(roles)
    /\ replaces = 0
    /\ pc = [r \in Reqs |-> "start"]
    /\ name = [r \in Reqs |-> ""]
    /\ role = [r \in Reqs |-> None]
    /\ dbConfig = [r \in Reqs |-> None]
    /\ db = [r \in Reqs |-> 0]
    /\ resp = [r \in Reqs |-> NilResp]
    /\ err = [r \in Reqs |-> NilErr]
    /\ calls = [r \in Reqs |-> {}]
    /\ created = [r \in Reqs |-> None]
    /\ lockHolder = 0
    /\ connections = [d \in DBNames |-> 0]
    /\ handles = <<>>
    /\ factoryCalls = [d \in DBNames |-> 0]
    /\ factoryLog = {}
    /\ PluginIdle
    /\ QueryIdle
    /\ RPCIdle

Next ==
    \/ \E r \in Reqs, n \in ReqNames, ok \in BOOLEAN : ResolveRole(r, n, ok)
    \/ \E r \in Reqs, ok \in BOOLEAN : ResolveConfig(r, ok)
    \/ \E r \in Reqs : Authorize(r)
    \/ \E r \in Reqs : Lock(r)
    \/ \E r \in Reqs : GetOrCreateLookup(r)
    \/ \E r \in Reqs, ok \in BOOLEAN : GetOrCreateConstruct(r, ok)
    \/ \E r \in Reqs, out \in CreateUserOutcomes : CreateUser(r, out)

Spec == Init /\ [][Next]_vars

\* A configuration write: the configuration stored under d is replaced and
\* the handle cached for d is invalidated, under the backend's lock.
ReplaceRecords ==
    {rec \in ConfigRecords : rec.decodes /\ rec.DatabaseType = postgreSQLTypeName}
ReplaceConfig(d, rec) ==
    /\ replaces < MaxReplaces
    /\ lockHolder = 0
    /\ configs[d] # None
    /\ configs[d] # ConfigEntry(rec)
    /\ configs' = [configs EXCEPT ![d] = ConfigEntry(rec)]
    /\ connections' = [connections EXCEPT ![d] = 0]
    /\ replaces' = replaces + 1
    /\ UNCHANGED <<roles, lockHolder, handles, factoryCalls, factoryLog>>
    /\ UNCHANGED <<reqVars, pluginVars, queryVars, rpcVars>>

NextReplace ==
    \/ \E r \in Reqs, n \in ReqNames, ok \in BOOLEAN : ResolveRole(r, n, ok)
    \/ \E r \in Reqs, ok \in BOOLEAN : ResolveConfig(r, ok)
    \/ \E r \in Reqs : Authorize(r)
    \/ \E r \in Reqs : Lock(r)
    \/ \E r \in Reqs : GetOrCreateLookup(r)
    \/ \E r \in Reqs, ok \in BOOLEAN : GetOrCreateConstruct(r, ok)
    \/ \E r \in Reqs, out \in CreateUserOutcomes : CreateUser(r, out)
    \/ \E d \in DBNames, rec \in ReplaceRecords : ReplaceConfig(d, rec)

\* the requests, with configurations replaced while they run
SpecReplace == Init /\ [][NextReplace]_vars

\* the steps of request r
RequestStep(r) ==
    \/ \E n \in ReqNames, ok \in BOOLEAN : ResolveRole(r, n, ok)
    \/ \E ok \in BOOLEAN : ResolveConfig(r, ok)
    \/ Authorize(r)
    \/ Lock(r)
    \/ GetOrCreateLookup(r)
    \/ \E ok \in BOOLEAN : GetOrCreateConstruct(r, ok)
    \/ \E out \in CreateUserOutcomes : CreateUser(r, out)

\* every storage lookup, Factory call and backend call returns, and a request
\* that can take the mutex eventually takes it
\* The fairness specification starts from a few storage tables that keep
\* every outcome of a request reachable (unknown role, missing configuration,
\* denial, failed construction, failed and successful CreateUser): r2 targets
\* db2, db1 is "postgres" or the unsupported "postgresql" and open to all,
\* db2 is missing, closed to r2 or open to all.
FairRoleTables == {rs \in RoleTables : rs["r2"].DBName = "db2"}
FairConfigTables(rs) ==
    {c \in ConfigTables(rs) :
        /\ c["db1"] # None /\ c["db1"].AllowedRoles = {"*"}
        /\ c["db2"] # None => c["db2"].DatabaseType = postgreSQLTypeName
        /\ \A d \in DBNames : c[d] # None =>
              /\ c[d].ConnectionDetails.decodes
              /\ c[d].DatabaseType # cassandraTypeName}

InitFair ==
    /\ roles \in FairRoleTables
    /\ configs \in FairConfigTables(roles)
    /\ replaces = 0
    /\ pc = [r \in Reqs |-> "start"]
    /\ name = [r \in Reqs |-> ""]
    /\ role = [r \in Reqs |-> None]
    /\ dbConfig = [r \in Reqs |-> None]
    /\ db = [r \in Reqs |-> 0]
    /\ resp = [r \in Reqs |-> NilResp]
    /\ err = [r \in Reqs |-> NilErr]
    /\ calls = [r \in Reqs |-> {}]
    /\ created = [r \in Reqs |-> None]
    /\ lockHolder = 0
    /\ connections = [d \in DBNames |-> 0]
    /\ handles = <<>>
    /\ factoryCalls = [d \in DBNames |-> 0]
    /\ factoryLog = {}
    /\ PluginIdle
    /\ QueryIdle
    /\ RPCIdle

SpecFair == InitFair /\ [][Next]_vars /\ \A r \in Reqs : WF_vars(RequestStep(r))

\* ------------------------------------------------- claims on the requests
\* the configuration stored for the role that request r named
StoredConfigOf(r) == configs[roles[name[r]].DBName]
AllowListAdmits(r) ==
    "*" \in StoredConfigOf(r).AllowedRoles \/ name[r] \in StoredConfigOf(r).AllowedRoles
Resolved(r) ==
    /\ pc[r] \notin {"start", "config", "authorize"}
    /\ name[r] \in DOMAIN roles
    /\ dbConfig[r] # None

\* C1: a request is issued a credential only if the allow-list of its role's
\* configuration holds "*" or the role's name; a request whose role is not
\* admitted ends with PermissionDenied, and it never takes the lock, never
\* acquires a handle, never runs Factory and never calls CreateUser.
C1_AllowListGuardsIssuance ==
    \A r \in Reqs :
        /\ resp[r].kind = "secret" => (Resolved(r) /\ AllowListAdmits(r))
        /\ (Resolved(r) /\ ~AllowListAdmits(r)) =>
              /\ pc[r] = "done"
              /\ err[r] = Err("PermissionDenied", "nil")
              /\ resp[r] = NilResp
              /\ calls[r] \cap {"Lock", "getOrCreateDBObj", "Factory", "CreateUser"} = {}
              /\ created[r] = None
              /\ db[r] = 0
              /\ lockHolder # r

C1_Witness ==
    \E r, s \in Reqs :
        /\ Resolved(r) /\ ~AllowListAdmits(r) /\ pc[r] = "done"
        /\ resp[s].kind = "secret"
        /\ roles[name[r]].DBName = roles[name[s]].DBName

\* C2: for every configuration name Factory is invoked at most once in
\* total, and all requests for that name that are past handle acquisition
\* hold the same handle or the same construction error.
\* request r got the cached handle, or the outcome of a construction
PastAcquire(r) ==
    /\ pc[r] \in {"createuser", "done"}
    /\ "getOrCreateDBObj" \in calls[r]
    /\ db[r] # 0 \/ "Factory" \in calls[r]
C2_FactoryOncePerName ==
    /\ \A d \in DBNames : factoryCalls[d] <= 1
    /\ \A r, s \in Reqs :
          (PastAcquire(r) /\ PastAcquire(s) /\ role[r].DBName = role[s].DBName)
             => (db[r] = db[s] /\ (db[r] = 0 => err[r] = err[s]))

\* C4: a request that ended with an error, or with the unknown-role answer,
\* carries no secret response; a secret response exists only after every
\* step, CreateUser included, succeeded.
C4_NoSecretOnFailure ==
    \A r \in Reqs :
        /\ err[r] # NilErr => resp[r] = NilResp
        /\ resp[r].kind = "secret" =>
              /\ Resolved(r)
              /\ db[r] # 0
              /\ created[r] # None
              /\ created[r].out.err = NilErr
        /\ (pc[r] = "done" /\ name[r] \notin DOMAIN roles) => resp[r].kind # "secret"

C4_Witness ==
    \E r \in Reqs :
        /\ pc[r] = "done"
        /\ created[r] # None
        /\ created[r].out.err # NilErr
        /\ \E s \in Reqs : pc[s] = "done" /\ err[s].kind = "cound not retrieve db"

\* C5: when CreateUser succeeded with (u, p) for a request on role R, the
\* response is the secret {username: u, password: p} with internal data
\* {username: u, role: R's name} and TTL R's default TTL.
C5_ResponseRoundTrip ==
    \A r \in Reqs :
        (created[r] # None /\ created[r].out.err = NilErr) =>
            /\ pc[r] = "done"
            /\ err[r] = NilErr
            /\ resp[r].kind = "secret"
            /\ resp[r].data = [username |-> created[r].out.username,
                               password |-> created[r].out.password]
            /\ resp[r].internal = [username |-> created[r].out.username,
                                   role |-> name[r]]
            /\ resp[r].ttl = roles[name[r]].DefaultTTL

C5_Witness ==
    \E r, s \in Reqs :
        /\ resp[r].kind = "secret" /\ resp[s].kind = "secret"
        /\ name[r] # name[s]
        /\ resp[r].ttl # resp[s].ttl
        /\ resp[r].data # resp[s].data

\* C9: Factory yields a handle and no error exactly when the type string is
\* "postgres" or "cassandra" and the connection details decode; any other
\* type string yields the unsupported-type error and no handle, and a
\* decode failure yields the decode error and no handle.
C9_FactoryClosedSet ==
    \A e \in factoryLog :
        LET supported == e.conf.DatabaseType \in {"postgres", "cassandra"}
            decodes == e.conf.ConnectionDetails.decodes
        IN /\ (e.out.db # "nil" /\ e.out.err = NilErr) <=> (supported /\ decodes)
           /\ ~supported =>
                 e.out = [db |-> "nil", err |-> Err("Unsupported database type", "nil")]
           /\ (supported /\ ~decodes) =>
                 e.out = [db |-> "nil", err |-> Err("DecodeError", "nil")]
           /\ e.out.db # "nil" =>
                 e.out.db = (IF e.conf.DatabaseType = "postgres" THEN "PostgreSQL"
                             ELSE "Cassandra")

C9_Witness ==
    /\ \E e \in factoryLog : e.out.db = "PostgreSQL"
    /\ \E e \in factoryLog : e.conf.DatabaseType = "postgresql" /\ e.out.db = "nil"

\* C13: a request whose role targets a database with no stored configuration
\* ends right after the configuration lookup with the not-found error (or the
\* storage's own failure), having run no allow-list test, no lock, no handle
\* acquisition and no CreateUser.
C13_MissingConfigIsTerminal ==
    \A r \in Reqs :
        (role[r] # None /\ "DatabaseConfig" \in calls[r]
            /\ configs[role[r].DBName] = None) =>
            /\ pc[r] = "done"
            /\ resp[r] = NilResp
            /\ err[r] \in {Err("NotFoundConfig", role[r].DBName), Err("StorageError", "nil")}
            /\ calls[r] = {"Role", "DatabaseConfig"}
            /\ dbConfig[r] = None /\ db[r] = 0 /\ created[r] = None
            /\ lockHolder # r

C13_Witness ==
    \E r \in Reqs :
        /\ role[r] # None /\ configs[role[r].DBName] = None
        /\ pc[r] = "done" /\ err[r] = Err("NotFoundConfig", role[r].DBName)

\* C14: a request naming a role that is not stored ends right after the role
\* lookup with the unknown-role outcome (or the storage's own failure): no
\* configuration lookup, allow-list test, lock, handle acquisition or
\* CreateUser runs for it.
C14_MissingRoleIsTerminal ==
    \A r \in Reqs :
        (pc[r] # "start" /\ name[r] \notin DOMAIN roles) =>
            /\ pc[r] = "done"
            /\ \/ resp[r] = UnknownRole(name[r]) /\ err[r] = NilErr
               \/ resp[r] = NilResp /\ err[r] = Err("StorageError", "nil")
            /\ calls[r] = {"Role"}
            /\ role[r] = None /\ dbConfig[r] = None /\ db[r] = 0 /\ created[r] = None
            /\ lockHolder # r

C14_Witness ==
    \E r \in Reqs :
        /\ name[r] \notin DOMAIN roles
        /\ pc[r] = "done" /\ resp[r] = UnknownRole(name[r])
        /\ \E s \in Reqs : created[s] # None

\* C15: once CreateUser has failed on a cached handle, the cache still maps
\* the database name to that same handle in every later state, and every
\* other request for that database is given that handle.
C15_FailedCreateUserKeepsHandle ==
    \A r \in Reqs :
        (created[r] # None /\ created[r].out.err # NilErr) =>
            /\ connections[role[r].DBName] = db[r]
            /\ \A s \in Reqs :
                   (role[s] # None /\ role[s].DBName = role[r].DBName /\ db[s] # 0) =>
                       db[s] = db[r]

\* a request's CreateUser failed and a later request was served from the cache
C15_Witness ==
    \E r, s \in Reqs :
        /\ r # s
        /\ created[r] # None /\ created[r].out.err # NilErr
        /\ "Factory" \in calls[r] /\ "Factory" \notin calls[s]
        /\ created[s] # None /\ db[s] = db[r]
        /\ connections[role[r].DBName] = db[r]

\* the requests between handle acquisition and the return of CreateUser
InSection == {r \in Reqs : pc[r] \in {"getdb", "construct", "createuser"}}

\* C16: a request holds the lock from before its handle acquisition until
\* CreateUser has returned, so at most one request is acquiring a handle or
\* has a CreateUser call in flight, whatever database names the requests target.
C16_OneRequestInSection ==
    /\ Cardinality(InSection) <= 1
    /\ \A r \in Reqs : r \in InSection <=> lockHolder = r
    /\ \A r \in InSection : "Lock" \in calls[r] /\ "Unlock" \notin calls[r]
    /\ Cardinality({r \in Reqs : pc[r] = "createuser"}) <= 1

\* one request is about to return from CreateUser on one database while
\* another, for a different database, waits for the lock
C16_Witness ==
    \E r, s \in Reqs :
        /\ pc[r] = "createuser" /\ lockHolder = r
        /\ pc[s] = "lock"
        /\ role[r].DBName # role[s].DBName

\* C18: with every call returning and fair scheduling, every request reaches
\* a terminal outcome, a request that has ended holds the lock no longer
\* (whichever way it ended), and a request waiting for the lock gets it.
C18_EveryRequestTerminates ==
    /\ [](\A r \in Reqs : pc[r] = "done" => lockHolder # r)
    /\ \A r \in Reqs : <>(pc[r] = "done")
    /\ \A r \in Reqs : (pc[r] = "lock") ~> (lockHolder = r)

\* two requests took the lock in turn; one left by an error, one by success
C18_Witness ==
    \E r, s \in Reqs :
        /\ r # s /\ pc[r] = "done" /\ pc[s] = "done" /\ lockHolder = 0
        /\ {"Lock", "Unlock"} \subseteq calls[r] /\ err[r] # NilErr
        /\ {"Lock", "Unlock"} \subseteq calls[s] /\ resp[s] # NilResp

\* C19: whenever CreateUser is invoked for a role on the handle of a
\* database, the allow-list of the configuration stored under that database
\* at that moment holds "*" or the role's name, also when the configuration
\* was replaced between the request's allow-list test and its CreateUser.
C19_AllowedAtCreateUser ==
    \A r \in Reqs :
        created[r] # None =>
            /\ created[r].stored # None
            /\ Authorized(created[r].stored.AllowedRoles, name[r])

\* ------------------------------------------------------- plugin lifecycle
handshakeConfig ==
    [ProtocolVersion |-> 1,
     MagicCookieKey |-> "VAULT_DATABASE_PLUGIN",
     MagicCookieValue |-> "926a0820-aea2-be28-51d6-83cdf00e8edb"]

\* what a plugin binary presents in the handshake
PluginBinaries ==
    [version : {1, 2},
     cookie : {"926a0820-aea2-be28-51d6-83cdf00e8edb", "00000000-bad-cookie"}]

\* a binary that could not be started presents nothing
NoBinary == [version |-> 0, cookie |-> ""]

\* the transport's compatibility check of a binary against the host's config
HandshakeAccepts(hs, bin) ==
    bin.version = hs.ProtocolVersion /\ bin.cookie = hs.MagicCookieValue

\* pluginRunner.Run(sys, pluginMap, handshakeConfig, ...): the state of the
\* spawned process and the error returned
PluginRunnerRun(hs, bin, startOk) ==
    IF ~startOk
    THEN [state |-> "failed", served |-> NoBinary, err |-> Err("TransportError", "start")]
    ELSE IF ~HandshakeAccepts(hs, bin)
    THEN [state |-> "rejected", served |-> bin, err |-> Err("TransportError", "handshake")]
    ELSE [state |-> "running", served |-> bin, err |-> NilErr]

\* the nine remote procedures
RemoteProcedures ==
    {"Type", "CreateUser", "RenewUser", "RevokeUser", "Initialize", "Close",
     "GenerateUsername", "GeneratePassword", "GenerateExpiration"}

ConnIdle == [pc |-> "idle", name |-> "", proc |-> 0]
ConnReturn(d, p, h, e) ==
    /\ connResults' = Append(connResults, [name |-> d, proc |-> p, handle |-> h, err |-> e])
    /\ conn' = ConnIdle

RunFailedNever(e) == FALSE

\* client, err := pluginRunner.Run(...); if err != nil { return nil, err }
RunFailed(e) == e # NilErr

\* a miss on the handle cache for d starts newPluginClient, which runs the plugin
PluginRun(d, bin, startOk) ==
    /\ conn.pc = "idle"
    /\ pluginCache[d] = 0
    /\ Len(procs) < MaxConnects
    /\ LET out == PluginRunnerRun(handshakeConfig, bin, startOk)
           p == Len(procs) + 1
       IN /\ procs' = Append(procs, [name |-> d, bin |-> out.served, state |-> out.state,
                                     kills |-> 0, served |-> "none"])
          /\ IF RunFailed(out.err)
               THEN ConnReturn(d, p, 0, out.err)
               ELSE /\ conn' = [pc |-> "client", name |-> d, proc |-> p]
                    /\ UNCHANGED connResults
    /\ UNCHANGED <<pluginHandles, pluginCache, closeCalls, stubCalls>>
    /\ UNCHANGED <<storeVars, reqVars, backendVars, queryVars, rpcVars>>

\* rpcClient, err := client.Client(); if err != nil { return nil, err }
PluginClient(ok) ==
    /\ conn.pc = "client"
    /\ IF ~ok
         THEN ConnReturn(conn.name, conn.proc, 0, Err("TransportError", "client"))
         ELSE conn' = [conn EXCEPT !.pc = "dispense"] /\ UNCHANGED connResults
    /\ UNCHANGED <<procs, pluginHandles, pluginCache, closeCalls, stubCalls>>
    /\ UNCHANGED <<storeVars, reqVars, backendVars, queryVars, rpcVars>>

\* raw, err := rpcClient.Dispense("database"); the DatabasePluginClient wrapping
\* the plugin client and the stub is returned, and cached under the name
PluginDispense(ok) ==
    /\ conn.pc = "dispense"
    /\ IF ~ok
         THEN /\ ConnReturn(conn.name, conn.proc, 0, Err("TransportError", "dispense"))
              /\ UNCHANGED <<pluginHandles, pluginCache>>
         ELSE /\ pluginHandles' = Append(pluginHandles,
                                         [name |-> conn.name, client |-> conn.proc])
              /\ pluginCache' = [pluginCache EXCEPT ![conn.name] = Len(pluginHandles) + 1]
              /\ ConnReturn(conn.name, conn.proc, Len(pluginHandles) + 1, NilErr)
    /\ UNCHANGED <<procs, closeCalls, stubCalls>>
    /\ UNCHANGED <<storeVars, reqVars, backendVars, queryVars, rpcVars>>

\* dr.client.Call("Plugin.<op>", ...): the call reaches the process when the
\* process runs and the channel holds; served is the procedure the process
\* served last, "none" while it has served none
Deliver(p, op, chanOk) ==
    IF procs[p].state = "running" /\ chanOk
    THEN [procs EXCEPT ![p].served = op]
    ELSE procs

\* a call of one of the client stub's operations other than Close
StubCall(h, op, chanOk) ==
    /\ h \in DOMAIN pluginHandles
    /\ op \in RemoteProcedures \ {"Close"}
    /\ stubCalls < MaxCalls
    /\ stubCalls' = stubCalls + 1
    /\ procs' = Deliver(pluginHandles[h].client, op, chanOk)
    /\ UNCHANGED <<conn, pluginHandles, pluginCache, closeCalls, connResults>>
    /\ UNCHANGED <<storeVars, reqVars, backendVars, queryVars, rpcVars>>

\* databasePluginRPCClient.Close: the error of the remote call, which is the
\* channel's, the server stub's Close always answering nil
RemoteCloseError(p, chanOk) ==
    IF procs[p].state = "running" /\ chanOk THEN NilErr
    ELSE Err("ChannelError", "Plugin.Close")

CloseStepsSkipKillOnError(remoteErr) ==
    IF remoteErr # NilErr THEN [steps |-> <<"Plugin.Close">>, ret |-> remoteErr]
    ELSE [steps |-> <<"Plugin.Close", "Kill">>, ret |-> remoteErr]

\* DatabasePluginClient.Close: err := dc.databasePluginRPCClient.Close();
\* dc.client.Kill(); return err
CloseSteps(remoteErr) == [steps |-> <<"Plugin.Close", "Kill">>, ret |-> remoteErr]

\* plugin.Client.Kill: ends the process
Kill(ps, p) == [ps EXCEPT ![p].kills = @ + 1, ![p].state = "exited"]

\* Close on handle h, by the cache (which drops its entry) or by any holder
PluginClose(h, chanOk, viaCache) ==
    /\ h \in DOMAIN pluginHandles
    /\ Len(closeCalls) < MaxCloses
    /\ viaCache => pluginCache[pluginHandles[h].name] = h
    /\ LET p == pluginHandles[h].client
           remoteErr == RemoteCloseError(p, chanOk)
           did == CloseSteps(remoteErr)
           sent == Deliver(p, "Close", chanOk)
       IN /\ procs' = IF \E i \in DOMAIN did.steps : did.steps[i] = "Kill"
                        THEN Kill(sent, p) ELSE sent
          /\ closeCalls' = Append(closeCalls,
                                  [handle |-> h, remoteErr |-> remoteErr,
                                   steps |-> did.steps, ret |-> did.ret,
                                   stateBefore |-> procs[p].state])
    /\ pluginCache' = IF viaCache THEN [pluginCache EXCEPT ![pluginHandles[h].name] = 0]
                      ELSE pluginCache
    /\ UNCHANGED <<conn, pluginHandles, connResults, stubCalls>>
    /\ UNCHANGED <<storeVars, reqVars, backendVars, queryVars, rpcVars>>

InitPlugin == CredsIdle /\ PluginIdle /\ QueryIdle /\ RPCIdle

NextPlugin ==
    \/ \E d \in DBNames, bin \in PluginBinaries, ok \in BOOLEAN : PluginRun(d, bin, ok)
    \/ \E ok \in BOOLEAN : PluginClient(ok)
    \/ \E ok \in BOOLEAN : PluginDispense(ok)
    \/ \E h \in DOMAIN pluginHandles, op \in RemoteProcedures, ok \in BOOLEAN :
          StubCall(h, op, ok)
    \/ \E h \in DOMAIN pluginHandles, ok \in BOOLEAN, viaCache \in BOOLEAN :
          PluginClose(h, ok, viaCache)

SpecPlugin == InitPlugin /\ [][NextPlugin]_vars

\* ------------------------------------------ claims on the plugin lifecycle
ClosesOf(p) == {i \in DOMAIN closeCalls : pluginHandles[closeCalls[i].handle].client = p}
\* the processes a successful Run started
Connected(p) == procs[p].state \in {"running", "exited"}
\* newPluginClient gave up on p's plugin client with an error
Abandoned(p) == \E i \in DOMAIN connResults :
                    connResults[i].proc = p /\ connResults[i].err # NilErr

\* C3: every configuration name has at most one live handle and at most one
\* live subprocess, and a subprocess has ended only if Close was called on
\* its handle.
C3_OneLivePerName ==
    /\ \A d \in DBNames :
          /\ Cardinality({h \in DOMAIN pluginHandles :
                             /\ pluginHandles[h].name = d
                             /\ procs[pluginHandles[h].client].state = "running"}) <= 1
          /\ Cardinality({p \in DOMAIN procs :
                             procs[p].name = d /\ procs[p].state = "running"}) <= 1
    /\ \A p \in DOMAIN procs : procs[p].state = "exited" => ClosesOf(p) # {}

\* C6: every Close on a plugin-backed handle sent the remote Close and then
\* killed the process, whatever the remote call returned, and returned the
\* remote call's error.
C6_CloseAlwaysKills ==
    /\ \A i \in DOMAIN closeCalls :
          /\ closeCalls[i].steps = <<"Plugin.Close", "Kill">>
          /\ closeCalls[i].ret = closeCalls[i].remoteErr
          /\ procs[pluginHandles[closeCalls[i].handle].client].state = "exited"
    /\ \A p \in DOMAIN procs : procs[p].kills = Cardinality(ClosesOf(p))

C6_Witness ==
    \E i \in DOMAIN closeCalls :
        /\ closeCalls[i].remoteErr # NilErr
        /\ closeCalls[i].stateBefore = "running"
        /\ closeCalls[i].ret.kind = "ChannelError"

\* C7: a process that a successful Run started is killed at most once, and
\* exactly once as soon as newPluginClient gave up on it or Close was called
\* on its handle.
C7_TerminateExactlyOnce ==
    \A p \in DOMAIN procs :
        Connected(p) =>
            /\ procs[p].kills <= 1
            /\ (Abandoned(p) \/ ClosesOf(p) # {}) => procs[p].kills = 1

\* C8: for a binary whose handshake presents another protocol version or
\* another cookie value, connecting ended with a transport error and no
\* handle, and no remote procedure was ever delivered to its process.
C8_HandshakeRejects ==
    \A p \in DOMAIN procs :
        (procs[p].bin.version # 1
           \/ procs[p].bin.cookie # "926a0820-aea2-be28-51d6-83cdf00e8edb") =>
            /\ procs[p].state # "running"
            /\ procs[p].served = "none"
            /\ conn.proc # p
            /\ \A h \in DOMAIN pluginHandles : pluginHandles[h].client # p
            /\ \E i \in DOMAIN connResults : connResults[i].proc = p
            /\ \A i \in DOMAIN connResults :
                  connResults[i].proc = p =>
                      /\ connResults[i].handle = 0
                      /\ connResults[i].err.kind = "TransportError"

C8_Witness ==
    \E p, q \in DOMAIN procs :
        /\ procs[p].state = "rejected"
        /\ procs[q].served # "none"
        /\ procs[p].name = procs[q].name

\* ------------------------------------------------------------ queryHelper
\* strings are sequences of characters
RECURSIVE ReplaceAll(_, _, _)
\* strings.Replace(s, old, new, -1) for a non-empty old: every
\* non-overlapping occurrence, left to right
ReplaceAll(s, old, new) ==
    IF Len(s) < Len(old) THEN s
    ELSE IF SubSeq(s, 1, Len(old)) = old
    THEN new \o ReplaceAll(SubSeq(s, Len(old) + 1, Len(s)), old, new)
    ELSE <<Head(s)>> \o ReplaceAll(Tail(s), old, new)

\* fmt.Sprintf("{{%s}}", k)
Token(k) == <<"{", "{">> \o k \o <<"}", "}">>

QueryKeys == {<<"n">>, <<"p">>}
QueryValues == {<<>>, <<"x">>, <<"{">>, Token(<<"n">>), Token(<<"p">>)}
QueryPieces == {<<"x">>, <<"{">>, <<"}">>, <<"{", "p", "}", "}">>,
                Token(<<"n">>), Token(<<"p">>)}
RECURSIVE Flatten(_)
Flatten(ps) == IF ps = <<>> THEN <<>> ELSE Head(ps) \o Flatten(Tail(ps))
QueryTemplates ==
    {Flatten(ps) : ps \in UNION {[1..k -> QueryPieces] : k \in 0..MaxPieces}}
QueryMaps == UNION {[ks -> QueryValues] : ks \in SUBSET QueryKeys}

\* one iteration of: for k, v := range data { tpl = strings.Replace(...) };
\* the iteration order of a map is not specified
QueryStep(k) ==
    /\ k \in qTodo
    /\ qTpl' = ReplaceAll(qTpl, Token(k), qData[k])
    /\ qTodo' = qTodo \ {k}
    /\ UNCHANGED <<qIn, qData>>
    /\ UNCHANGED <<storeVars, reqVars, backendVars, pluginVars, rpcVars>>

InitQuery ==
    /\ CredsIdle
    /\ PluginIdle
    /\ RPCIdle
    /\ qIn \in QueryTemplates
    /\ qData \in QueryMaps
    /\ qTpl = qIn
    /\ qTodo = DOMAIN qData

NextQuery == \E k \in QueryKeys : QueryStep(k)

SpecQuery == InitQuery /\ [][NextQuery]_vars

\* ------------------------------------------------- claims on queryHelper
RECURSIVE SubstituteOnce(_, _)
\* one pass over the template: a {{key}} token of the template becomes the
\* key's value, and the value is not looked at again
SubstituteOnce(s, data) ==
    IF s = <<>> THEN <<>>
    ELSE IF \E k \in DOMAIN data :
                Len(s) >= Len(Token(k)) /\ SubSeq(s, 1, Len(Token(k))) = Token(k)
    THEN LET k == CHOOSE k \in DOMAIN data :
                      Len(s) >= Len(Token(k)) /\ SubSeq(s, 1, Len(Token(k))) = Token(k)
         IN data[k] \o SubstituteOnce(SubSeq(s, Len(Token(k)) + 1, Len(s)), data)
    ELSE <<Head(s)>> \o SubstituteOnce(Tail(s), data)

\* the result of substituting the keys in the order given
RECURSIVE InOrder(_, _, _)
InOrder(s, data, order) ==
    IF order = <<>> THEN s
    ELSE InOrder(ReplaceAll(s, Token(Head(order)), data[Head(order)]), data, Tail(order))
Orders(ks) == {o \in [1..Cardinality(ks) -> ks] : \A i, j \in DOMAIN o : i # j => o[i] # o[j]}

\* C10: the result of queryHelper is the same for every order of the keys,
\* and it is the template with each of its {{key}} tokens replaced by the
\* key's value, nothing a value brought in being replaced in turn.
C10_OrderIndependentNonRecursive ==
    qTodo = {} =>
        /\ qTpl = SubstituteOnce(qIn, qData)
        /\ \A o \in Orders(DOMAIN qData) : InOrder(qIn, qData, o) = qTpl

\* ------------------------------------------------- the remote-call stubs
\* string results are sequences of pieces, "" being <<>>
StmtValues == {"stmtA", "stmtB"}
UserValues == {"u1", "u2"}
PassValues == {"pw1"}
ExpValues == {"e1", "e2"}
ConfValues == {[connection_url |-> "url1"], [connection_url |-> "url2"]}
Durations == {30, 60}
NoArgs == [none |-> TRUE]

\* the arguments a caller passes to each operation of the contract
StubArgs(op) ==
    CASE op = "CreateUser" ->
            [statements : StmtValues, username : UserValues,
             password : PassValues, expiration : ExpValues]
      [] op = "RenewUser" ->
            [statements : StmtValues, username : UserValues, expiration : ExpValues]
      [] op = "RevokeUser" -> [statements : StmtValues, username : UserValues]
      [] op = "Initialize" -> [conf : ConfValues]
      [] op = "GenerateUsername" -> [displayName : UserValues]
      [] op = "GenerateExpiration" -> [duration : Durations]
      [] OTHER -> {NoArgs}

\* what the real implementation can return: a value and no error, or an
\* error and the zero value; Type returns a string and nothing else
ImplError == Err("BackendOperationError", "statement failed")
ImplOutcomes(op) ==
    CASE op = "Type" -> {[value |-> <<t>>, err |-> NilErr] : t \in {postgreSQLTypeName, cassandraTypeName}}
      [] op \in {"GenerateUsername", "GeneratePassword", "GenerateExpiration"} ->
            {[value |-> <<v>>, err |-> NilErr] : v \in {"g1", "g2"}}
                \cup {[value |-> <<>>, err |-> ImplError]}
      [] OTHER -> {[value |-> <<>>, err |-> NilErr], [value |-> <<>>, err |-> ImplError]}

\* the request envelope each client stub builds
ClientRequest(op, a) ==
    CASE op = "CreateUser" ->
            [Statements |-> a.statements, Username |-> a.username,
             Password |-> a.password, Expiration |-> a.expiration]
      [] op = "RenewUser" ->
            [Statements |-> a.statements, Username |-> a.username,
             Expiration |-> a.expiration]
      [] op = "RevokeUser" -> [Statements |-> a.statements, Username |-> a.username]
      [] op = "Initialize" -> [body |-> a.conf]
      [] op = "GenerateUsername" -> [body |-> a.displayName]
      [] op = "GenerateExpiration" -> [body |-> a.duration]
      [] OTHER -> [body |-> "struct{}"]

\* the arguments each server stub hands to the real implementation
ServerArgs(op, req) ==
    CASE op = "CreateUser" ->
            [statements |-> req.Statements, username |-> req.Username,
             password |-> req.Password, expiration |-> req.Expiration]
      [] op = "RenewUser" ->
            [statements |-> req.Statements, username |-> req.Username,
             expiration |-> req.Expiration]
      [] op = "RevokeUser" -> [statements |-> req.Statements, username |-> req.Username]
      [] op = "Initialize" -> [conf |-> req.body]
      [] op = "GenerateUsername" -> [displayName |-> req.body]
      [] op = "GenerateExpiration" -> [duration |-> req.body]
      [] OTHER -> NoArgs

\* what each server stub replies once the implementation returned out
ServerReply(op, out) ==
    CASE op = "Type" -> [body |-> out.value, err |-> NilErr]
      [] op = "Close" -> [body |-> <<>>, err |-> NilErr]
      [] op \in {"GenerateUsername", "GeneratePassword", "GenerateExpiration"} ->
            [body |-> out.value, err |-> out.err]
      [] OTHER -> [body |-> <<>>, err |-> out.err]

\* rpc.Client.Call: a failed channel gives a channel error and leaves the
\* reply untouched; an error the server stub returned arrives as an
\* rpc.ServerError carrying its message, the reply untouched as well
ChannelError == Err("rpc.ErrShutdown", "connection is shut down")
ServerError(e) == Err("rpc.ServerError", e.cause)
ClientCall(reply, chanOk) ==
    IF ~chanOk THEN [body |-> <<>>, err |-> ChannelError]
    ELSE IF reply.err # NilErr THEN [body |-> <<>>, err |-> ServerError(reply.err)]
    ELSE [body |-> reply.body, err |-> NilErr]

\* what each client stub returns to its caller after Call returned got
ClientReturn(op, got) ==
    CASE op = "Type" -> [value |-> <<"plugin-">> \o got.body, err |-> NilErr]
      [] op \in {"GenerateUsername", "GeneratePassword", "GenerateExpiration"} ->
            [value |-> got.body, err |-> got.err]
      [] OTHER -> [value |-> <<>>, err |-> got.err]

NoReply == [body |-> <<>>, err |-> NilErr]
NoOutcome == [value |-> <<>>, err |-> NilErr]

\* a caller invokes a client stub; the channel may be down already
StubSend(op, a, chanOk) ==
    /\ rpc.pc \in {"idle", "returned"}
    /\ rpcCount < MaxRPCs
    /\ rpcCount' = rpcCount + 1
    /\ rpc' = IF chanOk
              THEN [pc |-> "sent", op |-> op, args |-> a, req |-> ClientRequest(op, a),
                    chan |-> "ok", invoked |-> <<>>, out |-> NoOutcome,
                    reply |-> NoReply, ret |-> NoOutcome]
              ELSE [pc |-> "returned", op |-> op, args |-> a, req |-> ClientRequest(op, a),
                    chan |-> "down", invoked |-> <<>>, out |-> NoOutcome,
                    reply |-> NoReply, ret |-> ClientReturn(op, ClientCall(NoReply, FALSE))]
    /\ UNCHANGED <<storeVars, reqVars, backendVars, pluginVars, queryVars>>

\* the server stub invokes the real implementation, which returns out
ServerServe(out) ==
    /\ rpc.pc = "sent"
    /\ out \in ImplOutcomes(rpc.op)
    /\ rpc' = [rpc EXCEPT !.pc = "served",
                          !.invoked = Append(@, [op |-> rpc.op,
                                                 args |-> ServerArgs(rpc.op, rpc.req)]),
                          !.out = out,
                          !.reply = ServerReply(rpc.op, out)]
    /\ UNCHANGED rpcCount
    /\ UNCHANGED <<storeVars, reqVars, backendVars, pluginVars, queryVars>>

\* the reply travels back, unless the channel fails first, and the client
\* stub returns
StubReturn(chanOk) ==
    /\ rpc.pc = "served"
    /\ rpc' = [rpc EXCEPT !.pc = "returned",
                          !.chan = IF chanOk THEN "ok" ELSE "down",
                          !.ret = ClientReturn(rpc.op, ClientCall(rpc.reply, chanOk))]
    /\ UNCHANGED rpcCount
    /\ UNCHANGED <<storeVars, reqVars, backendVars, pluginVars, queryVars>>

AllOutcomes == UNION {ImplOutcomes(op) : op \in RemoteProcedures}

InitRPC == CredsIdle /\ PluginIdle /\ QueryIdle /\ RPCIdle

NextRPC ==
    \/ \E op \in RemoteProcedures, ok \in BOOLEAN : \E a \in StubArgs(op) : StubSend(op, a, ok)
    \/ \E out \in AllOutcomes : ServerServe(out)
    \/ \E ok \in BOOLEAN : StubReturn(ok)

SpecRPC == InitRPC /\ [][NextRPC]_vars

\* ------------------------------------------------ claims on the stubs
\* C11: a remote call whose channel failed returns a channel error to its
\* caller, never a normal result and never an application error.
C11_ChannelFailureReported ==
    (rpc.pc = "returned" /\ rpc.chan = "down") =>
        /\ rpc.ret.err = ChannelError
        /\ rpc.ret.err.kind # ServerError(ImplError).kind

\* the eight operations that return an error do report a channel failure
C11_ExceptType ==
    (rpc.pc = "returned" /\ rpc.chan = "down" /\ rpc.op # "Type") =>
        rpc.ret.err = ChannelError

\* C12: when the real implementation returns an error, the server stub
\* replies with that error, and it is the error the remote caller receives over a
\* healthy channel; no failed call is answered as a success.
C12_ImplErrorPropagated ==
    (rpc.pc \in {"served", "returned"} /\ rpc.out.err # NilErr) =>
        /\ rpc.reply.err = rpc.out.err
        /\ (rpc.pc = "returned" /\ rpc.chan = "ok") => rpc.ret.err = ServerError(rpc.out.err)

\* every server stub but Close does pass the implementation's error on
C12_ExceptClose ==
    (rpc.pc \in {"served", "returned"} /\ rpc.out.err # NilErr /\ rpc.op # "Close") =>
        /\ rpc.reply.err = rpc.out.err
        /\ (rpc.pc = "returned" /\ rpc.chan = "ok") => rpc.ret.err = ServerError(rpc.out.err)

\* the error a caller sees for the error e of the implementation
Relayed(e) == IF e = NilErr THEN NilErr ELSE ServerError(e)

\* C17: over a healthy channel one call through the proxy invokes the
\* same-named operation of the real implementation exactly once with equal
\* arguments, and the caller gets exactly the value and the error the
\* implementation returned, the identity string of Type included.
C17_ProxyEqualsInProcess ==
    (rpc.pc = "returned" /\ rpc.chan = "ok") =>
        /\ rpc.invoked = <<[op |-> rpc.op, args |-> rpc.args]>>
        /\ rpc.ret.value = rpc.out.value
        /\ rpc.ret.err = Relayed(rpc.out.err)

\* the invocation and its arguments are the caller's for all nine operations,
\* and so are the results of all but Type and Close
C17_ExceptTypeAndClose ==
    (rpc.pc = "returned" /\ rpc.chan = "ok") =>
        /\ rpc.invoked = <<[op |-> rpc.op, args |-> rpc.args]>>
        /\ rpc.op \notin {"Type", "Close"} =>
              /\ rpc.ret.value = rpc.out.value
              /\ rpc.ret.err = Relayed(rpc.out.err)
        /\ rpc.op = "Type" => rpc.ret.value = <<"plugin-">> \o rpc.out.value

====
